---- MODULE Spec2Model ----
(***************************************************************************)
(* MedAsset Sentinel: the maintenance-compliance and alert-lifecycle       *)
(* engine (services/alert_service.py, services/maintenance_service.py,     *)
(* services/equipment_service.py over the tables of models.py).            *)
(*                                                                         *)
(* The database tables are the state.  Every service method is one action  *)
(* of the sequential specification Spec (the whole method, commits and     *)
(* rollbacks included).  ConcSpec splits create_alert into its query and   *)
(* its insert+commit, run by several callers at once.                      *)
(***************************************************************************)
EXTENDS Integers, Sequences, FiniteSets, TLC

(* ------------------------------ bounds -------------------------------- *)
MaxEquip == 2          \* equipment ids the model hands out
MaxAlerts == 2         \* rows of the alert table
MaxLogs == 1           \* rows of the maintenance_log table
TicksPerDay == 2       \* clock readings per calendar day
StartDay == 2          \* the calendar day of the first clock reading
MaxDay == 2            \* the last calendar day the clock reaches
NumCallers == 2        \* concurrent callers of ConcSpec
SchedMaxDay == 3       \* the last calendar day the clock of SchedSpec reaches

(* -------------------------- program constants ------------------------- *)
UpcomingDays == 7      \* timedelta(days=7), the scan's lookahead window

(* ------------------------------ values -------------------------------- *)
\* Python's None is the empty tuple, a present value v is <<v>>.
None == <<>>
Some(v) == <<v>>
Val(o) == o[1]

AlertTypes == {"UPCOMING_MAINTENANCE", "OVERDUE_MAINTENANCE", "EQUIPMENT_FAILURE"}
AlertSeverities == {"INFO", "WARNING", "CRITICAL"}
EquipmentStatuses == {"OK", "WARNING", "FAIL"}

EquipIds == 1..MaxEquip
StartNow == StartDay * TicksPerDay
MaxNow == MaxDay * TicksPerDay + (TicksPerDay - 1)

\* datetime.date(): the calendar day of a clock reading
DateOf(t) == t \div TicksPerDay

\* a guard that lets every id through, None included
AnyId(o) == TRUE

\* Python truthiness of an optional integer id: None and 0 are falsy
Truthy(o) == o # None /\ Val(o) # 0

\* the inputs the operations are called with
\* the serial number of the device registered as equipment i, and the serial
\* numbers create_equipment is called with when the next id is id: the new
\* device's, one already registered, and none
SerialOf == <<"S1", "S2", "S3", "S4">>
SerialArgs(id) == {"", "S1", SerialOf[id]}
Intervals == {1}
CreateIntervals == Intervals \cup {0}
DirectSeverities == {"INFO"}
\* a message is its leading word and the number of days it cites
DirectMessage == <<"MSG", None>>
FailureMessage == <<"CRITICAL", None>>
AlertEquipArgs == {None} \cup {Some(i) : i \in EquipIds}

VARIABLES
  now,        \* datetime.utcnow(), in clock ticks
  equipment,  \* the equipment table: id -> row
  alerts,     \* the alert table: row i has id i (rows are never deleted)
  logs,       \* the maintenance_log table: a set of rows
  last,       \* the last call: operation, arguments, returned value, commit failure seen
  pc,         \* ConcSpec: where each caller is in create_alert
  call        \* ConcSpec: each caller's arguments and query result

vars == <<now, equipment, alerts, logs, last, pc, call>>
dbVars == <<equipment, alerts, logs>>
concVars == <<pc, call>>

Today == DateOf(now)

Max(S) == CHOOSE x \in S : \A y \in S : y <= x

\* the id SQLite gives a new row of a table whose ids are ids: max(id) + 1
NextId(ids) == IF ids = {} THEN 1 ELSE Max(ids) + 1

AlertIds == 1..Len(alerts)

(* ---------------------------- models.py ------------------------------- *)
\* Alert(equipment_id=..., alert_type=..., severity=..., message=...) with the
\* column defaults resolved=False, resolved_at=NULL
NewAlert(eid, atype, sev, msg) ==
  [equipment_id |-> eid, alert_type |-> atype, severity |-> sev, message |-> msg,
   resolved |-> FALSE, resolved_at |-> None]

\* Alert.resolve without its second assignment
resolve_flag_only(a, t) == [a EXCEPT !.resolved = TRUE]

\* Alert.resolve at clock reading t
resolve(a, t) == [a EXCEPT !.resolved = TRUE, !.resolved_at = Some(t)]

\* check_duplicate with the resolved filter inverted
check_duplicate_resolved(al, eid, atype) ==
  \E i \in 1..Len(al) :
    /\ al[i].equipment_id = eid
    /\ al[i].alert_type = atype
    /\ al[i].resolved = TRUE

\* check_duplicate without the alert_type filter
check_duplicate_any_type(al, eid, atype) ==
  \E i \in 1..Len(al) :
    /\ al[i].equipment_id = eid
    /\ al[i].resolved = FALSE

\* Alert.check_duplicate over the alert table al
check_duplicate(al, eid, atype) ==
  \E i \in 1..Len(al) :
    /\ al[i].equipment_id = eid
    /\ al[i].alert_type = atype
    /\ al[i].resolved = FALSE

\* calculate_next_maintenance that always schedules from today
calculate_next_maintenance_from_today(e, today) ==
  [e EXCEPT !.next_maintenance_date = today + e.maintenance_interval]

\* Equipment.calculate_next_maintenance on the calendar day today
calculate_next_maintenance(e, today) ==
  IF e.last_maintenance_date # None
    THEN [e EXCEPT !.next_maintenance_date =
                      Val(e.last_maintenance_date) + e.maintenance_interval]
    ELSE [e EXCEPT !.next_maintenance_date = today + e.maintenance_interval]

\* Equipment.days_until_maintenance on the calendar day today
days_until_maintenance(e, today) == e.next_maintenance_date - today

\* the number with its sign kept
Signed(n) == n

Abs(n) == IF n < 0 THEN 0 - n ELSE n

(* ------------------------- alert_service.py --------------------------- *)
\* create_alert without the duplicate check of line 25
create_alert_unchecked(al, eid, atype, sev, msg, ok) ==
  IF ok
    THEN [alerts |-> Append(al, NewAlert(eid, atype, sev, msg)),
          ret |-> Some(Len(al) + 1), fault |-> FALSE]
    ELSE [alerts |-> al, ret |-> None, fault |-> TRUE]

\* AlertService.create_alert on the alert table al; ok: the commit succeeds.
\* The result is the table afterwards, the returned value (None or the new
\* alert, named by its id) and whether the commit failed.
create_alert(al, eid, atype, sev, msg, ok) ==
  IF Truthy(eid) /\ check_duplicate(al, eid, atype)
    THEN [alerts |-> al, ret |-> None, fault |-> FALSE]
    ELSE IF ok
      THEN [alerts |-> Append(al, NewAlert(eid, atype, sev, msg)),
            ret |-> Some(Len(al) + 1), fault |-> FALSE]
      ELSE [alerts |-> al, ret |-> None, fault |-> TRUE]

\* create_equipment_failure_alert without its lookup of the equipment
create_equipment_failure_alert_unchecked(eq, al, id, ok) ==
  create_alert(al, Some(id), "EQUIPMENT_FAILURE", "CRITICAL", FailureMessage, ok)

\* AlertService.create_equipment_failure_alert
create_equipment_failure_alert(eq, al, id, ok) ==
  IF id \notin DOMAIN eq
    THEN [alerts |-> al, ret |-> None, fault |-> FALSE]
    ELSE create_alert(al, Some(id), "EQUIPMENT_FAILURE", "CRITICAL",
                      FailureMessage, ok)

\* "Determine message and severity" without its final else: return False
maintenance_alert_fields_any_type(atype, days_overdue, days_until) ==
  IF atype = "OVERDUE_MAINTENANCE"
    THEN Some([severity |-> "CRITICAL", message |-> <<"OVERDUE", days_overdue>>])
    ELSE Some([severity |-> "WARNING", message |-> <<"UPCOMING", days_until>>])

\* create_maintenance_alert's "Determine message and severity": None for a
\* type that is neither of the two maintenance types
maintenance_alert_fields(atype, days_overdue, days_until) ==
  IF atype = "OVERDUE_MAINTENANCE"
    THEN Some([severity |-> "CRITICAL", message |-> <<"OVERDUE", days_overdue>>])
  ELSE IF atype = "UPCOMING_MAINTENANCE"
    THEN Some([severity |-> "WARNING", message |-> <<"UPCOMING", days_until>>])
  ELSE None

\* AlertService.create_maintenance_alert; the returned value is a boolean
create_maintenance_alert(eq, al, id, atype, days_overdue, days_until, ok) ==
  LET f == maintenance_alert_fields(atype, days_overdue, days_until) IN
  IF id \notin DOMAIN eq \/ f = None
    THEN [alerts |-> al, ret |-> FALSE, fault |-> FALSE]
    ELSE LET r == create_alert(al, Some(id), atype, Val(f).severity,
                               Val(f).message, ok)
         IN [alerts |-> r.alerts, ret |-> (r.ret # None), fault |-> r.fault]

\* the query without its resolved == False filter
maintenance_alerts_query_resolved(al, eid) ==
  {i \in 1..Len(al) :
     /\ al[i].equipment_id = eid
     /\ al[i].alert_type \in {"UPCOMING_MAINTENANCE", "OVERDUE_MAINTENANCE"}}

\* the query without its alert_type filter
maintenance_alerts_query_all_types(al, eid) ==
  {i \in 1..Len(al) :
     /\ al[i].equipment_id = eid
     /\ al[i].resolved = FALSE}

\* the query of resolve_maintenance_alerts: the ids of the rows it loads
maintenance_alerts_query(al, eid) ==
  {i \in 1..Len(al) :
     /\ al[i].equipment_id = eid
     /\ al[i].resolved = FALSE
     /\ al[i].alert_type \in {"UPCOMING_MAINTENANCE", "OVERDUE_MAINTENANCE"}}

\* resolve_maintenance_alerts that keeps its count when the commit fails
resolve_maintenance_alerts_counting(al, eid, t, ok) ==
  LET found == maintenance_alerts_query(al, eid)
      count == Cardinality(found)
  IN IF count > 0 /\ ~ok
       THEN [alerts |-> al, ret |-> count, fault |-> TRUE]
       ELSE [alerts |-> [i \in 1..Len(al) |->
                           IF i \in found THEN resolve(al[i], t) ELSE al[i]],
             ret |-> count, fault |-> FALSE]

\* AlertService.resolve_maintenance_alerts at clock reading t
resolve_maintenance_alerts(al, eid, t, ok) ==
  LET found == maintenance_alerts_query(al, eid)
      count == Cardinality(found)
  IN IF count > 0 /\ ~ok
       THEN [alerts |-> al, ret |-> 0, fault |-> TRUE]
       ELSE [alerts |-> [i \in 1..Len(al) |->
                           IF i \in found THEN resolve(al[i], t) ELSE al[i]],
             ret |-> count, fault |-> FALSE]

\* resolve_alert without the "already resolved" check of line 115
resolve_alert_again(al, id, t, ok) ==
  IF id \notin 1..Len(al)
    THEN [alerts |-> al, ret |-> <<FALSE, "Alert not found">>, fault |-> FALSE]
    ELSE IF ok
      THEN [alerts |-> [al EXCEPT ![id] = resolve(al[id], t)],
            ret |-> <<TRUE, "None">>, fault |-> FALSE]
      ELSE [alerts |-> al, ret |-> <<FALSE, "Database error">>, fault |-> TRUE]

\* resolve_alert that reports a missing alert as already resolved
resolve_alert_no_lookup(al, id, t, ok) ==
  IF id \notin 1..Len(al) \/ al[id].resolved
    THEN [alerts |-> al, ret |-> <<FALSE, "Alert already resolved">>, fault |-> FALSE]
    ELSE IF ok
      THEN [alerts |-> [al EXCEPT ![id] = resolve(al[id], t)],
            ret |-> <<TRUE, "None">>, fault |-> FALSE]
      ELSE [alerts |-> al, ret |-> <<FALSE, "Database error">>, fault |-> TRUE]

\* AlertService.resolve_alert at clock reading t; the returned value is the
\* pair (success, error message)
resolve_alert(al, id, t, ok) ==
  IF id \notin 1..Len(al)
    THEN [alerts |-> al, ret |-> <<FALSE, "Alert not found">>, fault |-> FALSE]
    ELSE IF al[id].resolved
      THEN [alerts |-> al, ret |-> <<FALSE, "Alert already resolved">>, fault |-> FALSE]
    ELSE IF ok
      THEN [alerts |-> [al EXCEPT ![id] = resolve(al[id], t)],
            ret |-> <<TRUE, "None">>, fault |-> FALSE]
      ELSE [alerts |-> al, ret |-> <<FALSE, "Database error">>, fault |-> TRUE]

(* ---------------------- maintenance_service.py ------------------------ *)
\* the strings performed_by is called with, and str.strip on them
PerformedByArgs == {"", " ", " tech"}
\* the (performed_by, performed_at) pairs log_maintenance is called with at
\* clock reading t: a named technician at every time, no technician now
LogArgs(t) ==
  {<<" tech", at>> : at \in {None, Some(0), Some(t), Some(t + 1)}}
    \cup {<<by, None>> : by \in PerformedByArgs}
\* the string as it is, nothing stripped
unstripped(s) == s
strip(s) == IF s = " tech" THEN "tech" ELSE IF s = " " THEN "" ELSE s

\* MaintenanceService.log_maintenance at clock reading t.  ok1: the commit of
\* the log row and the equipment dates succeeds; ok2: the commit inside
\* resolve_maintenance_alerts succeeds.  The returned value is the pair
\* (log, error message), the log named by its id.
log_maintenance(eq, al, lg, id, performed_by, performed_at, t, ok1, ok2) ==
  LET same(ret) == [equipment |-> eq, alerts |-> al, logs |-> lg, ret |-> ret,
                    fault |-> FALSE]
      at == IF performed_at = None THEN t ELSE Val(performed_at)
  IN IF id \notin DOMAIN eq
       THEN same(<<None, "Equipment not found">>)
     ELSE IF performed_by = "" \/ strip(performed_by) = ""
       THEN same(<<None, "Performed by is required">>)
     ELSE IF at > t
       THEN same(<<None, "Maintenance date cannot be in the future">>)
     ELSE IF ~ok1
       THEN [same(<<None, "Database error">>) EXCEPT !.fault = TRUE]
     ELSE LET log == [id |-> NextId({l.id : l \in lg}), equipment_id |-> id,
                      performed_at |-> at, performed_by |-> strip(performed_by)]
              e == calculate_next_maintenance(
                     [eq[id] EXCEPT !.last_maintenance_date = Some(DateOf(at))],
                     DateOf(t))
              r == resolve_maintenance_alerts(al, Some(id), t, ok2)
          IN [equipment |-> [eq EXCEPT ![id] = e],
              alerts |-> r.alerts,
              logs |-> lg \cup {log},
              ret |-> <<Some(log.id), "None">>,
              fault |-> r.fault]

\* scan_request with the end of the lookahead window excluded
scan_request_exclusive(e, today) ==
  LET next_date == e.next_maintenance_date
      upcoming_threshold == today + UpcomingDays
  IN IF next_date < today
       THEN Some([alert_type |-> "OVERDUE_MAINTENANCE",
                  days_overdue |-> Some(Abs(days_until_maintenance(e, today))),
                  days_until |-> None])
     ELSE IF today <= next_date /\ next_date < upcoming_threshold
       THEN Some([alert_type |-> "UPCOMING_MAINTENANCE",
                  days_overdue |-> None,
                  days_until |-> Some(days_until_maintenance(e, today))])
     ELSE None

\* scan_request with no end of the lookahead window
scan_request_unbounded(e, today) ==
  LET next_date == e.next_maintenance_date
  IN IF next_date < today
       THEN Some([alert_type |-> "OVERDUE_MAINTENANCE",
                  days_overdue |-> Some(Abs(days_until_maintenance(e, today))),
                  days_until |-> None])
     ELSE Some([alert_type |-> "UPCOMING_MAINTENANCE",
                days_overdue |-> None,
                days_until |-> Some(days_until_maintenance(e, today))])

\* the branch check_maintenance_compliance takes for equipment row e: the
\* arguments of the create_maintenance_alert call it makes, None when it
\* makes none
scan_request(e, today) ==
  LET next_date == e.next_maintenance_date
      upcoming_threshold == today + UpcomingDays
  IN IF next_date < today
       THEN Some([alert_type |-> "OVERDUE_MAINTENANCE",
                  days_overdue |-> Some(Abs(days_until_maintenance(e, today))),
                  days_until |-> None])
     ELSE IF today <= next_date /\ next_date <= upcoming_threshold
       THEN Some([alert_type |-> "UPCOMING_MAINTENANCE",
                  days_overdue |-> None,
                  days_until |-> Some(days_until_maintenance(e, today))])
     ELSE None

\* scan_one that counts every create_maintenance_alert call it makes
scan_one_counting_calls(eq, i, today, ok, acc) ==
  LET q == scan_request(eq[i], today) IN
  IF q = None THEN acc
  ELSE LET r == create_maintenance_alert(eq, acc.alerts, i, Val(q).alert_type,
                    Val(q).days_overdue, Val(q).days_until, ok)
           overdue == Val(q).alert_type = "OVERDUE_MAINTENANCE"
       IN [alerts |-> r.alerts,
           upcoming |-> IF ~overdue THEN acc.upcoming + 1 ELSE acc.upcoming,
           overdue |-> IF overdue THEN acc.overdue + 1 ELSE acc.overdue,
           fault |-> acc.fault \/ r.fault,
           failed |-> IF r.fault THEN acc.failed \cup {i} ELSE acc.failed]

\* one turn of the loop of check_maintenance_compliance, for equipment i;
\* acc is the alert table and the counters so far
scan_one(eq, i, today, ok, acc) ==
  LET q == scan_request(eq[i], today) IN
  IF q = None THEN acc
  ELSE LET r == create_maintenance_alert(eq, acc.alerts, i, Val(q).alert_type,
                    Val(q).days_overdue, Val(q).days_until, ok)
           overdue == Val(q).alert_type = "OVERDUE_MAINTENANCE"
       IN [alerts |-> r.alerts,
           upcoming |-> IF r.ret /\ ~overdue THEN acc.upcoming + 1 ELSE acc.upcoming,
           overdue |-> IF r.ret /\ overdue THEN acc.overdue + 1 ELSE acc.overdue,
           fault |-> acc.fault \/ r.fault,
           failed |-> IF r.fault THEN acc.failed \cup {i} ELSE acc.failed]

\* the loop were it to return after the first equipment row
scan_loop_first_only(eq, todo, today, fails, acc) ==
  IF todo = {} THEN acc
  ELSE LET i == CHOOSE x \in todo : \A y \in todo : x <= y
       IN scan_one(eq, i, today, i \notin fails, acc)

RECURSIVE scan_loop(_, _, _, _, _)
scan_loop(eq, todo, today, fails, acc) ==
  IF todo = {} THEN acc
  ELSE LET i == CHOOSE x \in todo : \A y \in todo : x <= y
       IN scan_loop(eq, todo \ {i}, today, fails,
                    scan_one(eq, i, today, i \notin fails, acc))

\* MaintenanceService.check_maintenance_compliance on the calendar day today;
\* fails: the equipment whose alert insert fails to commit, should the scan
\* attempt one; failed: the equipment whose insert was attempted and failed
check_maintenance_compliance(eq, al, today, fails) ==
  LET r == scan_loop(eq, DOMAIN eq, today, fails,
                     [alerts |-> al, upcoming |-> 0, overdue |-> 0, fault |-> FALSE,
                      failed |-> {}])
  IN [alerts |-> r.alerts,
      ret |-> [total_equipment |-> Cardinality(DOMAIN eq),
               upcoming_alerts_created |-> r.upcoming,
               overdue_alerts_created |-> r.overdue],
      fault |-> r.fault,
      failed |-> r.failed]

(* ----------------------- equipment_service.py ------------------------- *)
\* whether a stored equipment has the serial number: get_equipment_by_serial
\* were it to find nothing
no_equipment_by_serial(eq, serial_number) == FALSE

\* EquipmentService.get_equipment_by_serial found a row
get_equipment_by_serial(eq, serial_number) ==
  \E i \in DOMAIN eq : eq[i].serial_number = serial_number

\* EquipmentService.create_equipment on the calendar day today; created_date is
\* the calendar day of the row's created_at
create_equipment(eq, serial_number, maintenance_interval, today, ok) ==
  LET same(ret) == [equipment |-> eq, ret |-> ret, fault |-> FALSE] IN
  IF serial_number = ""
    THEN same(<<None, "Name, serial number and type are required">>)
  ELSE IF maintenance_interval = 0 \/ maintenance_interval <= 0
    THEN same(<<None, "Maintenance interval must be greater than 0">>)
  ELSE IF get_equipment_by_serial(eq, serial_number)
    THEN same(<<None, "already exists">>)
  ELSE IF ~ok
    THEN [same(<<None, "Database error">>) EXCEPT !.fault = TRUE]
  ELSE LET id == NextId(DOMAIN eq)
           e == calculate_next_maintenance(
                  [serial_number |-> serial_number,
                   maintenance_interval |-> maintenance_interval,
                   last_maintenance_date |-> None,
                   next_maintenance_date |-> today,
                   current_status |-> "OK",
                   created_date |-> today], today)
       IN [equipment |-> [i \in DOMAIN eq \cup {id} |->
                            IF i = id THEN e ELSE eq[i]],
           ret |-> <<Some(id), "None">>, fault |-> FALSE]

\* EquipmentService.update_equipment; given: maintenance_interval is among the
\* keyword arguments, value: what it is passed as (None or a number)
update_equipment(eq, id, given, value, today, ok) ==
  LET same(ret) == [equipment |-> eq, ret |-> ret, fault |-> FALSE] IN
  IF id \notin DOMAIN eq
    THEN same(<<None, "Equipment not found">>)
  ELSE IF ~ok
    THEN [same(<<None, "Database error">>) EXCEPT !.fault = TRUE]
  ELSE LET set == IF given /\ value # None
                    THEN [eq[id] EXCEPT !.maintenance_interval = Val(value)]
                    ELSE eq[id]
           e == IF given THEN calculate_next_maintenance(set, today) ELSE set
       IN [equipment |-> [eq EXCEPT ![id] = e],
           ret |-> <<Some(id), "None">>, fault |-> FALSE]

\* update_equipment_status were the status written without the id filter
update_equipment_status_of_all(eq, id, new_status, ok) ==
  IF id \notin DOMAIN eq
    THEN [equipment |-> eq, ret |-> <<None, "Equipment not found">>,
          fault |-> FALSE]
  ELSE IF ~ok
    THEN [equipment |-> eq, ret |-> <<None, "Database error">>, fault |-> TRUE]
  ELSE [equipment |-> [i \in DOMAIN eq |->
                         [eq[i] EXCEPT !.current_status = new_status]],
        ret |-> <<Some(id), "None">>, fault |-> FALSE]

\* EquipmentService.update_equipment_status
update_equipment_status(eq, id, new_status, ok) ==
  LET same(ret) == [equipment |-> eq, ret |-> ret, fault |-> FALSE] IN
  IF id \notin DOMAIN eq
    THEN same(<<None, "Equipment not found">>)
  ELSE IF ~ok
    THEN [same(<<None, "Database error">>) EXCEPT !.fault = TRUE]
  ELSE [equipment |-> [eq EXCEPT ![id].current_status = new_status],
        ret |-> <<Some(id), "None">>, fault |-> FALSE]

\* the alert table had the deletion cascaded to the alerts of equipment id
RECURSIVE delete_alerts(_, _)
delete_alerts(al, id) ==
  IF al = <<>> THEN <<>>
  ELSE IF Head(al).equipment_id = Some(id)
    THEN delete_alerts(Tail(al), id)
    ELSE <<Head(al)>> \o delete_alerts(Tail(al), id)

\* the alert table after equipment id is deleted: alert.equipment_id is
\* ondelete SET NULL
nullify_alerts(al, id) ==
  [i \in 1..Len(al) |->
     IF al[i].equipment_id = Some(id)
       THEN [al[i] EXCEPT !.equipment_id = None] ELSE al[i]]

\* the log table were the deletion to reach the logs of every equipment
delete_all_logs(lg, id) == {}

\* the log table after equipment id is deleted: its logs are deleted with it
delete_logs(lg, id) == {l \in lg : l.equipment_id # id}

\* EquipmentService.delete_equipment: the maintenance logs cascade
delete_equipment(eq, al, lg, id, ok) ==
  LET same(ret) == [equipment |-> eq, alerts |-> al, logs |-> lg, ret |-> ret,
                    fault |-> FALSE] IN
  IF id \notin DOMAIN eq
    THEN same(<<FALSE, "Equipment not found">>)
  ELSE IF ~ok
    THEN [same(<<FALSE, "Database error">>) EXCEPT !.fault = TRUE]
  ELSE [equipment |-> [i \in DOMAIN eq \ {id} |-> eq[i]],
        alerts |-> nullify_alerts(al, id),
        logs |-> delete_logs(lg, id),
        ret |-> <<TRUE, "None">>, fault |-> FALSE]

(* ------------------------------ actions ------------------------------- *)
Callers == 1..NumCallers

\* what a finished call leaves for its caller; Idle: no call is being returned
Called(op, args, r) == [op |-> op, args |-> args, ret |-> r.ret, fault |-> r.fault]
Idle == [op |-> "idle", args |-> <<>>, ret |-> <<>>, fault |-> FALSE]
\* what a finished scan leaves: its summary, and whose inserts failed
Scanned(r) ==
  [op |-> "check_maintenance_compliance", args |-> <<>>, ret |-> r.ret,
   fault |-> r.fault, failed |-> r.failed]

Init ==
  /\ now = StartNow
  /\ equipment = <<>>
  /\ alerts = <<>>
  /\ logs = {}
  /\ last = Idle
  /\ pc = [w \in Callers |-> "idle"]
  /\ call = [w \in Callers |-> <<>>]

\* the clock advances between calls
Tick ==
  /\ last.op = "idle"
  /\ now < MaxNow
  /\ now' = now + 1
  /\ UNCHANGED <<dbVars, last, concVars>>

\* the caller takes the returned value; the next call can begin
Return ==
  /\ last.op # "idle"
  /\ last' = Idle
  /\ UNCHANGED <<now, dbVars, concVars>>

CallCreateAlert ==
  /\ last.op = "idle"
  /\ \E eid \in AlertEquipArgs, atype \in AlertTypes, sev \in DirectSeverities,
     ok \in BOOLEAN :
    \E r \in {create_alert(alerts, eid, atype, sev, DirectMessage, ok)} :
    /\ Len(r.alerts) <= MaxAlerts
    /\ alerts' = r.alerts
    /\ last' = Called("create_alert", <<eid, atype, sev, DirectMessage>>, r)
    /\ UNCHANGED <<now, equipment, logs, concVars>>

CallCreateEquipmentFailureAlert ==
  /\ last.op = "idle"
  /\ \E id \in EquipIds, ok \in BOOLEAN :
    \E r \in {create_equipment_failure_alert(equipment, alerts, id, ok)} :
    /\ Len(r.alerts) <= MaxAlerts
    /\ alerts' = r.alerts
    /\ last' = Called("create_equipment_failure_alert", <<id>>, r)
    /\ UNCHANGED <<now, equipment, logs, concVars>>

CallCreateMaintenanceAlert ==
  /\ last.op = "idle"
  /\ \E id \in EquipIds, atype \in AlertTypes, days \in {Some(1)}, ok \in BOOLEAN :
    \E r \in {create_maintenance_alert(equipment, alerts, id, atype, days, days, ok)} :
    /\ Len(r.alerts) <= MaxAlerts
    /\ alerts' = r.alerts
    /\ last' = Called("create_maintenance_alert", <<id, atype, days>>,
                      [ret |-> <<r.ret>>, fault |-> r.fault])
    /\ UNCHANGED <<now, equipment, logs, concVars>>

CallResolveAlert ==
  /\ last.op = "idle"
  /\ \E id \in 1..(Len(alerts) + 1), ok \in BOOLEAN :
    \E r \in {resolve_alert(alerts, id, now, ok)} :
    /\ alerts' = r.alerts
    /\ last' = Called("resolve_alert", <<id>>, r)
    /\ UNCHANGED <<now, equipment, logs, concVars>>

CallResolveMaintenanceAlerts ==
  /\ last.op = "idle"
  /\ \E id \in EquipIds, ok \in BOOLEAN :
    \E r \in {resolve_maintenance_alerts(alerts, Some(id), now, ok)} :
    /\ alerts' = r.alerts
    /\ last' = Called("resolve_maintenance_alerts", <<id>>,
                      [ret |-> <<r.ret>>, fault |-> r.fault])
    /\ UNCHANGED <<now, equipment, logs, concVars>>

CallLogMaintenance ==
  /\ last.op = "idle"
  /\ \E id \in EquipIds, a \in LogArgs(now), ok1 \in BOOLEAN, ok2 \in BOOLEAN :
    \E r \in {log_maintenance(equipment, alerts, logs, id, a[1], a[2], now, ok1, ok2)} :
    /\ Cardinality(r.logs) <= MaxLogs
    /\ equipment' = r.equipment
    /\ alerts' = r.alerts
    /\ logs' = r.logs
    /\ last' = Called("log_maintenance", <<id, a[1], a[2]>>, r)
    /\ UNCHANGED <<now, concVars>>

CallCheckMaintenanceCompliance ==
  /\ last.op = "idle"
  /\ \E fails \in SUBSET (DOMAIN equipment) :
    \E r \in {check_maintenance_compliance(equipment, alerts, Today, fails)} :
    /\ Len(r.alerts) <= MaxAlerts
    /\ alerts' = r.alerts
    /\ last' = Scanned(r)
    /\ UNCHANGED <<now, equipment, logs, concVars>>

CallCreateEquipment ==
  /\ last.op = "idle"
  /\ \E serial \in SerialArgs(NextId(DOMAIN equipment)), interval \in CreateIntervals,
       ok \in BOOLEAN :
    \E r \in {create_equipment(equipment, serial, interval, Today, ok)} :
    /\ DOMAIN r.equipment \subseteq EquipIds
    /\ equipment' = r.equipment
    /\ last' = Called("create_equipment", <<serial, interval>>, r)
    /\ UNCHANGED <<now, alerts, logs, concVars>>

CallUpdateEquipment ==
  /\ last.op = "idle"
  /\ \E id \in EquipIds, given \in BOOLEAN,
     value \in {None} \cup {Some(n) : n \in Intervals}, ok \in BOOLEAN :
    \E r \in {update_equipment(equipment, id, given, value, Today, ok)} :
    /\ equipment' = r.equipment
    /\ last' = Called("update_equipment", <<id, given, value>>, r)
    /\ UNCHANGED <<now, alerts, logs, concVars>>

CallDeleteEquipment ==
  /\ last.op = "idle"
  /\ \E id \in EquipIds, ok \in BOOLEAN :
    \E r \in {delete_equipment(equipment, alerts, logs, id, ok)} :
    /\ equipment' = r.equipment
    /\ alerts' = r.alerts
    /\ logs' = r.logs
    /\ last' = Called("delete_equipment", <<id>>, r)
    /\ UNCHANGED <<now, concVars>>

Next ==
  \/ Tick
  \/ Return
  \/ CallCreateAlert
  \/ CallCreateEquipmentFailureAlert
  \/ CallCreateMaintenanceAlert
  \/ CallResolveAlert
  \/ CallResolveMaintenanceAlerts
  \/ CallLogMaintenance
  \/ CallCheckMaintenanceCompliance
  \/ CallCreateEquipment
  \/ CallUpdateEquipment
  \/ CallDeleteEquipment

Spec == Init /\ [][Next]_vars

(* ------------------- create_alert, callers overlapping ----------------- *)
\* Each caller runs create_alert on its own session: the duplicate query
\* (check_duplicate) reads the committed table, the insert and its commit
\* come later, and other callers' steps fall in between.

\* the create_alert calls a caller can be making: direct ones, and those
\* create_equipment_failure_alert, create_maintenance_alert and the loop of
\* check_maintenance_compliance make for an equipment row they have read
AlertCall(via, eid, atype, sev, msg) ==
  [via |-> via, equipment_id |-> eid, alert_type |-> atype, severity |-> sev,
   message |-> msg]

DirectCalls ==
  {AlertCall("create_alert", eid, atype, sev, DirectMessage) :
     eid \in AlertEquipArgs, atype \in AlertTypes, sev \in DirectSeverities}

FailureCalls ==
  {AlertCall("create_equipment_failure_alert", Some(id), "EQUIPMENT_FAILURE",
             "CRITICAL", FailureMessage) : id \in DOMAIN equipment}

MaintenanceCalls ==
  {AlertCall("create_maintenance_alert", Some(id), atype,
             Val(maintenance_alert_fields(atype, Some(1), Some(1))).severity,
             Val(maintenance_alert_fields(atype, Some(1), Some(1))).message) :
     id \in DOMAIN equipment,
     atype \in {"OVERDUE_MAINTENANCE", "UPCOMING_MAINTENANCE"}}

ScanCall(id) ==
  LET q == Val(scan_request(equipment[id], Today))
      f == Val(maintenance_alert_fields(q.alert_type, q.days_overdue, q.days_until))
  IN AlertCall("check_maintenance_compliance", Some(id), q.alert_type,
               f.severity, f.message)

ScanCalls ==
  {ScanCall(id) : id \in {i \in DOMAIN equipment :
                            scan_request(equipment[i], Today) # None}}

\* caller w enters create_alert
Enter(w) ==
  /\ pc[w] = "idle"
  /\ \E c \in DirectCalls \cup FailureCalls \cup MaintenanceCalls \cup ScanCalls :
       call' = [call EXCEPT ![w] = c]
  /\ pc' = [pc EXCEPT ![w] = "query"]
  /\ UNCHANGED <<now, dbVars, last>>

\* line 25: the duplicate query; a duplicate returns None
Query(w) ==
  /\ pc[w] = "query"
  /\ IF Truthy(call[w].equipment_id)
        /\ check_duplicate(alerts, call[w].equipment_id, call[w].alert_type)
       THEN pc' = [pc EXCEPT ![w] = "suppressed"]
       ELSE pc' = [pc EXCEPT ![w] = "insert"]
  /\ UNCHANGED <<now, dbVars, last, call>>

\* lines 28-41: the insert and its commit, which may fail
Insert(w) ==
  /\ pc[w] = "insert"
  /\ \E ok \in BOOLEAN :
       IF ok
         THEN /\ Len(alerts) < MaxAlerts
              /\ alerts' = Append(alerts, NewAlert(call[w].equipment_id,
                                    call[w].alert_type, call[w].severity,
                                    call[w].message))
              /\ pc' = [pc EXCEPT ![w] = "created"]
         ELSE /\ alerts' = alerts
              /\ pc' = [pc EXCEPT ![w] = "failed"]
  /\ UNCHANGED <<now, equipment, logs, last, call>>

\* the caller has its result and is free for the next call
Leave(w) ==
  /\ pc[w] \in {"suppressed", "created", "failed"}
  /\ pc' = [pc EXCEPT ![w] = "idle"]
  /\ call' = [call EXCEPT ![w] = <<>>]
  /\ UNCHANGED <<now, dbVars, last>>

\* the equipment table after create_equipment has registered MaxEquip devices
RECURSIVE Registered(_)
Registered(n) ==
  IF n = 0 THEN <<>>
  ELSE create_equipment(Registered(n - 1), SerialOf[n], 1, DateOf(StartNow),
                        TRUE).equipment

ConcInit ==
  /\ now = StartNow
  /\ equipment = Registered(MaxEquip)
  /\ alerts = <<>>
  /\ logs = {}
  /\ last = Idle
  /\ pc = [w \in Callers |-> "idle"]
  /\ call = [w \in Callers |-> <<>>]

ConcNext ==
  \/ \E w \in Callers : Enter(w)
  \/ \E w \in Callers : Query(w)
  \/ \E w \in Callers : Insert(w)
  \/ \E w \in Callers : Leave(w)

ConcSpec == ConcInit /\ [][ConcNext]_vars

(* ------------------ the maintenance schedule over days ----------------- *)
\* SchedSpec: equipment is registered, edited, serviced and scanned on
\* successive calendar days, with intervals on both sides of the scan's
\* lookahead window and service dates in the past.

\* the intervals equipment is registered with: inside and outside the window
SchedIntervals == {1, UpcomingDays + 1}
\* what update_equipment is passed as maintenance_interval: nothing (None, as
\* the edit route does for an empty field), an interval, zero
SchedUpdateValues == {None} \cup {Some(n) : n \in SchedIntervals \cup {0}}
\* the statuses update_equipment_status is called with
SchedStatuses == {"OK", "FAIL"}
\* performed_at of log_maintenance at clock reading t: now, or two days ago
SchedPerformedAt(t) == {None, Some(t - 2 * TicksPerDay)}

\* midnight passes between calls
NextDay ==
  /\ last.op = "idle"
  /\ Today < SchedMaxDay
  /\ now' = (Today + 1) * TicksPerDay
  /\ UNCHANGED <<dbVars, last, concVars>>

SchedCreateEquipment ==
  /\ last.op = "idle"
  /\ \E interval \in SchedIntervals \cup {0, -1}, ok \in BOOLEAN :
    \E serial \in {SerialOf[NextId(DOMAIN equipment)]} :
    \E r \in {create_equipment(equipment, serial, interval, Today, ok)} :
    /\ DOMAIN r.equipment \subseteq EquipIds
    /\ equipment' = r.equipment
    /\ last' = Called("create_equipment", <<serial, interval>>, r)
    /\ UNCHANGED <<now, alerts, logs, concVars>>

SchedUpdateEquipment ==
  /\ last.op = "idle"
  /\ \E id \in EquipIds, given \in BOOLEAN, value \in SchedUpdateValues,
       ok \in BOOLEAN :
    \E r \in {update_equipment(equipment, id, given, value, Today, ok)} :
    /\ given \/ value = None
    /\ equipment' = r.equipment
    /\ last' = Called("update_equipment", <<id, given, value>>, r)
    /\ UNCHANGED <<now, alerts, logs, concVars>>

SchedUpdateEquipmentStatus ==
  /\ last.op = "idle"
  /\ \E id \in EquipIds, new_status \in SchedStatuses, ok \in BOOLEAN :
    \E r \in {update_equipment_status(equipment, id, new_status, ok)} :
    /\ equipment' = r.equipment
    /\ last' = Called("update_equipment_status", <<id, new_status>>, r)
    /\ UNCHANGED <<now, alerts, logs, concVars>>

SchedLogMaintenance ==
  /\ last.op = "idle"
  /\ \E id \in EquipIds, at \in SchedPerformedAt(now), ok1 \in BOOLEAN,
       ok2 \in BOOLEAN :
    \E r \in {log_maintenance(equipment, alerts, logs, id, " tech", at, now, ok1, ok2)} :
    /\ Cardinality(r.logs) <= MaxLogs
    /\ equipment' = r.equipment
    /\ alerts' = r.alerts
    /\ logs' = r.logs
    /\ last' = Called("log_maintenance", <<id, " tech", at>>, r)
    /\ UNCHANGED <<now, concVars>>

SchedCheckMaintenanceCompliance ==
  /\ last.op = "idle"
  /\ \E fails \in SUBSET (DOMAIN equipment) :
    \E r \in {check_maintenance_compliance(equipment, alerts, Today, fails)} :
    /\ Len(r.alerts) <= MaxAlerts
    /\ alerts' = r.alerts
    /\ last' = Scanned(r)
    /\ UNCHANGED <<now, equipment, logs, concVars>>

SchedNext ==
  \/ NextDay
  \/ Return
  \/ SchedCreateEquipment
  \/ SchedUpdateEquipment
  \/ SchedUpdateEquipmentStatus
  \/ SchedLogMaintenance
  \/ SchedCheckMaintenanceCompliance

SchedSpec == Init /\ [][SchedNext]_vars

(* ------------------- scans on successive calendar days ---------------- *)
\* DaysSpec: one registered equipment is scanned day after day, until after
\* its maintenance has come due, and in between it is serviced and alerts
\* are resolved by hand.
DaysMaxDay == 4        \* the last calendar day the clock of DaysSpec reaches

DaysInit ==
  /\ now = StartNow
  /\ equipment = Registered(1)
  /\ alerts = <<>>
  /\ logs = {}
  /\ last = Idle
  /\ pc = [w \in Callers |-> "idle"]
  /\ call = [w \in Callers |-> <<>>]

\* midnight passes between calls
DaysNextDay ==
  /\ last.op = "idle"
  /\ Today < DaysMaxDay
  /\ now' = (Today + 1) * TicksPerDay
  /\ UNCHANGED <<dbVars, last, concVars>>

DaysNext ==
  \/ DaysNextDay
  \/ Return
  \/ SchedCheckMaintenanceCompliance
  \/ SchedLogMaintenance
  \/ CallResolveAlert

DaysSpec == DaysInit /\ [][DaysNext]_vars

(* --------------------- several services of one device ----------------- *)
\* LogsSpec: the registered equipment is serviced more than once, the
\* service being recorded at once or two days late.
MaxServices == 2       \* rows of the maintenance_log table in LogsSpec

LogsLogMaintenance ==
  /\ last.op = "idle"
  /\ \E id \in EquipIds, at \in SchedPerformedAt(now), ok1 \in BOOLEAN,
       ok2 \in BOOLEAN :
    \E r \in {log_maintenance(equipment, alerts, logs, id, " tech", at, now, ok1, ok2)} :
    /\ Cardinality(r.logs) <= MaxServices
    /\ equipment' = r.equipment
    /\ alerts' = r.alerts
    /\ logs' = r.logs
    /\ last' = Called("log_maintenance", <<id, " tech", at>>, r)
    /\ UNCHANGED <<now, concVars>>

LogsNext ==
  \/ Tick
  \/ Return
  \/ LogsLogMaintenance

LogsSpec == ConcInit /\ [][LogsNext]_vars

(* ------------------ resolve_alert, callers overlapping ----------------- *)
\* ResolveSpec: each caller runs resolve_alert on its own session: it loads
\* the alert and tests its resolved flag, and assigns and commits later;
\* other callers' steps fall in between.

\* the alert table after create_alert has raised n system alerts
RECURSIVE Raised(_)
Raised(n) ==
  IF n = 0 THEN <<>>
  ELSE create_alert(Raised(n - 1), None, "EQUIPMENT_FAILURE", "CRITICAL",
                    DirectMessage, TRUE).alerts

ResolveInit ==
  /\ now = StartNow
  /\ equipment = <<>>
  /\ alerts = Raised(MaxAlerts)
  /\ logs = {}
  /\ last = Idle
  /\ pc = [w \in Callers |-> "idle"]
  /\ call = [w \in Callers |-> <<>>]

\* caller w enters resolve_alert(alert_id)
ResolveEnter(w) ==
  /\ pc[w] = "idle"
  /\ \E id \in 1..(Len(alerts) + 1) :
       call' = [call EXCEPT ![w] = [alert_id |-> id]]
  /\ pc' = [pc EXCEPT ![w] = "read"]
  /\ UNCHANGED <<now, dbVars, last>>

\* lines 111-117: Alert.query.get and the two early returns
ResolveRead(w) ==
  /\ pc[w] = "read"
  /\ pc' = [pc EXCEPT ![w] =
              IF call[w].alert_id \notin 1..Len(alerts) THEN "not_found"
              ELSE IF alerts[call[w].alert_id].resolved THEN "already_resolved"
              ELSE "write"]
  /\ UNCHANGED <<now, dbVars, last, call>>

\* lines 119-126: alert.resolve() and the commit, which may fail; the UPDATE
\* writes resolved and resolved_at of the row whatever it holds by now
ResolveWrite(w) ==
  /\ pc[w] = "write"
  /\ \E ok \in BOOLEAN :
       IF ok
         THEN /\ alerts' = [alerts EXCEPT ![call[w].alert_id] =
                              resolve(alerts[call[w].alert_id], now)]
              /\ pc' = [pc EXCEPT ![w] = "resolved"]
         ELSE /\ alerts' = alerts
              /\ pc' = [pc EXCEPT ![w] = "failed"]
  /\ UNCHANGED <<now, equipment, logs, last, call>>

\* the caller has its result and is free for the next call
ResolveLeave(w) ==
  /\ pc[w] \in {"not_found", "already_resolved", "resolved", "failed"}
  /\ pc' = [pc EXCEPT ![w] = "idle"]
  /\ call' = [call EXCEPT ![w] = <<>>]
  /\ UNCHANGED <<now, dbVars, last>>

ResolveNext ==
  \/ Tick
  \/ \E w \in Callers : ResolveEnter(w)
  \/ \E w \in Callers : ResolveRead(w)
  \/ \E w \in Callers : ResolveWrite(w)
  \/ \E w \in Callers : ResolveLeave(w)

ResolveSpec == ResolveInit /\ [][ResolveNext]_vars

(* -------------- the scan and log_maintenance, overlapping -------------- *)
\* OverlapSpec: a caller runs check_maintenance_compliance while another
\* runs log_maintenance, each on its own session. The scan loads the
\* equipment rows once (line 120) and commits one alert at a time;
\* log_maintenance commits the log and the dates, then
\* resolve_maintenance_alerts queries and commits. Other callers' steps
\* fall between the commits.

\* the equipment table after create_equipment registered n devices two days
\* before the first clock reading: their first maintenance is overdue
RECURSIVE RegisteredEarlier(_)
RegisteredEarlier(n) ==
  IF n = 0 THEN <<>>
  ELSE create_equipment(RegisteredEarlier(n - 1), SerialOf[n], 1,
                        DateOf(StartNow - 2 * TicksPerDay), TRUE).equipment

OverlapInit ==
  /\ now = StartNow
  /\ equipment = RegisteredEarlier(MaxEquip)
  /\ alerts = <<>>
  /\ logs = {}
  /\ last = Idle
  /\ pc = [w \in Callers |-> "idle"]
  /\ call = [w \in Callers |-> <<>>]

\* line 120: Equipment.query.all(); the session keeps the loaded rows
ScanLoad(w) ==
  /\ pc[w] = "idle"
  /\ call' = [call EXCEPT ![w] =
                [rows |-> equipment, todo |-> DOMAIN equipment,
                 expired |-> FALSE, equipment_id |-> None, request |-> None,
                 fault |-> FALSE]]
  /\ pc' = [pc EXCEPT ![w] = "classify"]
  /\ UNCHANGED <<now, dbVars, last>>

\* the row the scan's session shows for equipment i: the loaded one, until a
\* commit or rollback of the session has expired it and it is read again
RowSeen(c, i) == IF c.expired THEN equipment[i] ELSE c.rows[i]

\* lines 126-141: the next row of the loop is classified
ScanClassify(w) ==
  /\ pc[w] = "classify"
  /\ IF call[w].todo = {}
       THEN /\ pc' = [pc EXCEPT ![w] = "scanned"]
            /\ call' = call
       ELSE LET i == CHOOSE x \in call[w].todo : \A y \in call[w].todo : x <= y
                q == scan_request(RowSeen(call[w], i), Today)
            IN IF q = None
                 THEN /\ call' = [call EXCEPT ![w].todo = @ \ {i}]
                      /\ pc' = pc
                 ELSE /\ call' = [call EXCEPT ![w].todo = @ \ {i},
                                              ![w].equipment_id = Some(i),
                                              ![w].request = q]
                      /\ pc' = [pc EXCEPT ![w] = "alert"]
  /\ UNCHANGED <<now, dbVars, last>>

\* lines 132-136 and 143-147: create_maintenance_alert with what was read
ScanAlert(w) ==
  /\ pc[w] = "alert"
  /\ \E ok \in BOOLEAN :
    \E r \in {create_maintenance_alert(equipment, alerts,
                Val(call[w].equipment_id), Val(call[w].request).alert_type,
                Val(call[w].request).days_overdue,
                Val(call[w].request).days_until, ok)} :
    /\ Len(r.alerts) <= MaxAlerts
    /\ alerts' = r.alerts
    /\ call' = [call EXCEPT ![w].expired = @ \/ r.ret \/ r.fault,
                            ![w].fault = @ \/ r.fault,
                            ![w].equipment_id = None,
                            ![w].request = None]
  /\ pc' = [pc EXCEPT ![w] = "classify"]
  /\ UNCHANGED <<now, equipment, logs, last>>

\* log_maintenance up to its commit of line 57: the log row and the dates
LogCommit(w) ==
  /\ pc[w] = "idle"
  /\ \E id \in DOMAIN equipment, ok \in BOOLEAN :
    \E r \in {log_maintenance(equipment, alerts, logs, id, " tech", None, now,
                              ok, FALSE)} :
    /\ Cardinality(r.logs) <= MaxLogs
    /\ equipment' = r.equipment
    /\ logs' = r.logs
    /\ call' = [call EXCEPT ![w] = [equipment_id |-> Some(id), fault |-> ~ok]]
    /\ pc' = [pc EXCEPT ![w] = IF ok THEN "resolve" ELSE "log_failed"]
  /\ UNCHANGED <<now, alerts, last>>

\* line 60: resolve_maintenance_alerts, its query and its commit
LogResolve(w) ==
  /\ pc[w] = "resolve"
  /\ \E ok \in BOOLEAN :
    \E r \in {resolve_maintenance_alerts(alerts, call[w].equipment_id, now, ok)} :
    /\ alerts' = r.alerts
    /\ call' = [call EXCEPT ![w].fault = r.fault]
  /\ pc' = [pc EXCEPT ![w] = "logged"]
  /\ UNCHANGED <<now, equipment, logs, last>>

\* the caller has its result and is free for the next call
OverlapLeave(w) ==
  /\ pc[w] \in {"scanned", "logged", "log_failed"}
  /\ pc' = [pc EXCEPT ![w] = "idle"]
  /\ call' = [call EXCEPT ![w] = <<>>]
  /\ UNCHANGED <<now, dbVars, last>>

OverlapNext ==
  \/ \E w \in Callers : ScanLoad(w)
  \/ \E w \in Callers : ScanClassify(w)
  \/ \E w \in Callers : ScanAlert(w)
  \/ \E w \in Callers : LogCommit(w)
  \/ \E w \in Callers : LogResolve(w)
  \/ \E w \in Callers : OverlapLeave(w)

OverlapSpec == OverlapInit /\ [][OverlapNext]_vars

(* --------------------- the list of unresolved alerts ------------------ *)
\* QuerySpec: alerts of every severity are created at successive clock
\* readings, some are resolved, and the unresolved ones are listed. Here an
\* alert row carries its created_at, the column the list is ordered by.

\* the Alert row a with the column default created_at = utcnow() filled in
Stamped(a, t) ==
  [equipment_id |-> a.equipment_id, alert_type |-> a.alert_type,
   severity |-> a.severity, message |-> a.message, resolved |-> a.resolved,
   resolved_at |-> a.resolved_at, created_at |-> t]

\* How the severity column sorts, ascending. db.Enum(AlertSeverity) stores
\* the member names: as VARCHAR on SQLite (the configured default), compared
\* as strings; as a native enum type where DATABASE_URL names a backend that
\* has one, compared by position in the class.
SeverityOrder(native) ==
  IF native THEN <<"INFO", "WARNING", "CRITICAL">>
            ELSE <<"CRITICAL", "INFO", "WARNING">>
SeverityKey(sev, native) ==
  CHOOSE k \in 1..3 : SeverityOrder(native)[k] = sev

\* ORDER BY severity DESC, created_at DESC: row a may come before row b
OrderedBefore(a, b, native) ==
  \/ SeverityKey(a.severity, native) > SeverityKey(b.severity, native)
  \/ /\ a.severity = b.severity
     /\ a.created_at >= b.created_at

\* the orders in which the query may return the rows ids of the table al;
\* rows that compare equal come in either order
Orderings(al, ids, native) ==
  {p \in [1..Cardinality(ids) -> ids] :
     /\ \A i, j \in DOMAIN p : i # j => p[i] # p[j]
     /\ \A i, j \in DOMAIN p : i < j => OrderedBefore(al[p[i]], al[p[j]], native)}

\* the limits get_unresolved_alerts is called with: none, or a positive one
MaxLimit == 2
Limits == {None} \cup {Some(n) : n \in 1..MaxLimit}

\* query.limit(limit) applied when "if limit:" lets it
Limited(p, limit) ==
  IF Truthy(limit) /\ Val(limit) < Len(p) THEN SubSeq(p, 1, Val(limit)) ELSE p

\* AlertService.get_unresolved_alerts: the lists of alert ids it may return
get_unresolved_alerts(al, limit, native) ==
  {Limited(p, limit) :
     p \in Orderings(al, {i \in 1..Len(al) : al[i].resolved = FALSE}, native)}

MaxListed == 3      \* rows of the alert table in QuerySpec

QueryCreateAlert ==
  /\ last.op = "idle"
  /\ Len(alerts) < MaxListed
  /\ \E sev \in AlertSeverities :
    \E r \in {create_alert(alerts, None, "EQUIPMENT_FAILURE", sev, DirectMessage, TRUE)} :
    /\ alerts' = Append(alerts, Stamped(r.alerts[Len(r.alerts)], now))
    /\ last' = Called("create_alert",
                      <<None, "EQUIPMENT_FAILURE", sev, DirectMessage>>, r)
    /\ UNCHANGED <<now, equipment, logs, concVars>>

QueryResolveAlert ==
  /\ last.op = "idle"
  /\ \E id \in 1..Len(alerts) :
    \E r \in {resolve_alert(alerts, id, now, TRUE)} :
    /\ alerts' = r.alerts
    /\ last' = Called("resolve_alert", <<id>>, r)
    /\ UNCHANGED <<now, equipment, logs, concVars>>

CallGetUnresolvedAlerts ==
  /\ last.op = "idle"
  /\ \E limit \in Limits, native \in BOOLEAN :
    \E listed \in get_unresolved_alerts(alerts, limit, native) :
    /\ last' = Called("get_unresolved_alerts", <<limit>>,
                      [ret |-> listed, fault |-> FALSE])
    /\ UNCHANGED <<now, dbVars, concVars>>

QueryNext ==
  \/ Tick
  \/ Return
  \/ QueryCreateAlert
  \/ QueryResolveAlert
  \/ CallGetUnresolvedAlerts

QuerySpec == Init /\ [][QueryNext]_vars

(* ------------------------------ properties ---------------------------- *)
\* the unresolved alerts of the table al that reference eid with type atype
Unresolved(al, eid, atype) ==
  {i \in 1..Len(al) :
     al[i].equipment_id = eid /\ al[i].alert_type = atype /\ ~al[i].resolved}

MaintenanceTypes == {"UPCOMING_MAINTENANCE", "OVERDUE_MAINTENANCE"}

\* C1: in every state reached by non-overlapping calls of the alert,
\* maintenance and equipment services, for every equipment E and alert type A
\* at most one alert has equipment_id = E, alert_type = A and resolved = false.
DedupInvariant ==
  \A e \in EquipIds, a \in AlertTypes :
    Cardinality(Unresolved(alerts, Some(e), a)) <= 1

\* a compliance scan has just found its alert already raised and created
\* nothing, next to an earlier, resolved alert of the same equipment and type
DedupWitness ==
  /\ last.op = "check_maintenance_compliance"
  /\ last.ret.upcoming_alerts_created = 0
  /\ last.ret.overdue_alerts_created = 0
  /\ ~last.fault
  /\ \E e \in DOMAIN equipment, a \in MaintenanceTypes :
       /\ Cardinality(Unresolved(alerts, Some(e), a)) = 1
       /\ \E i \in 1..Len(alerts) :
            /\ alerts[i].equipment_id = Some(e)
            /\ alerts[i].alert_type = a
            /\ alerts[i].resolved

\* C2: with the duplicate query and the insert+commit of two or more
\* create_alert callers interleaved in any order, no reachable state holds two
\* unresolved alerts for the same (equipment, type) pair.
ConcurrentDedup ==
  \A i, j \in 1..Len(alerts) :
    (/\ i # j
     /\ alerts[i].equipment_id # None
     /\ alerts[i].equipment_id = alerts[j].equipment_id
     /\ alerts[i].alert_type = alerts[j].alert_type
     /\ ~alerts[i].resolved)
    => alerts[j].resolved

\* the dates log_maintenance leaves on equipment row e for a service on day d
Serviced(e, d) ==
  /\ e.last_maintenance_date = Some(d)
  /\ e.next_maintenance_date = d + e.maintenance_interval

\* C3: log_maintenance is all-or-nothing: when it returns, either the new log
\* row, the updated last/next maintenance dates and the resolution of all
\* UPCOMING/OVERDUE alerts of that equipment are all persisted, or none of them
\* is, also when one of its two commits fails.
LogMaintenanceAllOrNothing ==
  [][last'.op = "log_maintenance" =>
       LET id == last'.args[1] IN
       \/ /\ logs' = logs
          /\ equipment' = equipment
          /\ alerts' = alerts
       \/ /\ \E l \in logs' \ logs :
               /\ l.equipment_id = id
               /\ Serviced(equipment'[id], DateOf(l.performed_at))
          /\ maintenance_alerts_query(alerts', Some(id)) = {}]_vars

ResolutionOneWay ==
  [][\A i \in 1..Len(alerts) :
       alerts[i].resolved =>
         /\ i \in 1..Len(alerts')
         /\ alerts'[i].resolved
         /\ alerts'[i].resolved_at = alerts[i].resolved_at]_vars

\* log_maintenance has just resolved the maintenance alerts of an equipment
\* that also has one resolved at an earlier clock reading
ResolutionOneWayWitness ==
  /\ last.op = "log_maintenance"
  /\ last.ret[1] # None
  /\ \E i, j \in 1..Len(alerts) :
       /\ alerts[i].equipment_id = Some(last.args[1])
       /\ alerts[j].equipment_id = Some(last.args[1])
       /\ alerts[i].alert_type \in MaintenanceTypes
       /\ alerts[j].alert_type \in MaintenanceTypes
       /\ alerts[i].resolved_at = Some(now - 1)
       /\ alerts[j].resolved_at = Some(now)

\* alert a after it is resolved at clock reading t, every other field kept
ResolvedAt(a, t) == [a EXCEPT !.resolved = TRUE, !.resolved_at = Some(t)]

\* C6: resolve_alert on an alert that is already resolved returns
\* (False, 'Alert already resolved') and leaves that alert's resolved_at and
\* every other field of every alert unchanged.
ResolveAlertAlreadyResolved ==
  [][(/\ last'.op = "resolve_alert"
      /\ last'.args[1] \in 1..Len(alerts)
      /\ alerts[last'.args[1]].resolved)
     => /\ last'.ret = <<FALSE, "Alert already resolved">>
        /\ alerts' = alerts]_vars

\* resolve_alert has just refused an alert that was resolved at an earlier
\* clock reading
ResolveAlertAlreadyResolvedWitness ==
  /\ last.op = "resolve_alert"
  /\ last.ret = <<FALSE, "Alert already resolved">>
  /\ alerts[last.args[1]].resolved_at = Some(now - 1)

\* C7: resolve_alert with an id that matches no alert returns
\* (False, 'Alert not found'), which differs from the AlreadyResolved
\* outcome, and changes no alert; with the id of an existing unresolved alert
\* whose commit succeeds it returns success and sets exactly that alert to
\* resolved = true with resolved_at set, every other alert unchanged; when
\* the commit fails it returns (False, 'Database error') and changes no alert.
ResolveAlertOutcomes ==
  [][last'.op = "resolve_alert" =>
       LET id == last'.args[1] IN
       IF id \notin 1..Len(alerts)
         THEN /\ last'.ret = <<FALSE, "Alert not found">>
              /\ last'.ret # <<FALSE, "Alert already resolved">>
              /\ alerts' = alerts
       ELSE IF alerts[id].resolved THEN TRUE
       ELSE IF ~last'.fault
         THEN /\ last'.ret[1] = TRUE
              /\ alerts' = [alerts EXCEPT ![id] = ResolvedAt(@, now)]
         ELSE /\ last'.ret = <<FALSE, "Database error">>
              /\ alerts' = alerts]_vars

\* C7 as stated: an existing unresolved alert is always resolved with success
ResolveAlertAlwaysSucceeds ==
  [][last'.op = "resolve_alert" =>
       LET id == last'.args[1] IN
       IF id \notin 1..Len(alerts)
         THEN /\ last'.ret = <<FALSE, "Alert not found">>
              /\ last'.ret # <<FALSE, "Alert already resolved">>
              /\ alerts' = alerts
       ELSE IF alerts[id].resolved THEN TRUE
       ELSE /\ last'.ret[1] = TRUE
            /\ alerts' = [alerts EXCEPT ![id] = ResolvedAt(@, now)]]_vars

\* resolve_alert has just resolved the second of two alerts, the first still
\* unresolved
ResolveAlertOutcomesWitness ==
  /\ last.op = "resolve_alert"
  /\ last.ret[1] = TRUE
  /\ last.args[1] = 2
  /\ ~alerts[1].resolved
  /\ alerts[2].resolved_at = Some(now)

\* C8: create_alert with an equipment id E and type A while an unresolved
\* alert for (E, A) exists returns None, adds no row and changes no field of
\* any alert; when no unresolved alert for (E, A) exists and persistence
\* succeeds it adds exactly one new unresolved alert with the given
\* equipment, type, severity and message.
SuppressionIsNoOp ==
  [][(last'.op = "create_alert" /\ last'.args[1] # None) =>
       LET eid == last'.args[1]
           atype == last'.args[2]
       IN IF Unresolved(alerts, eid, atype) # {}
            THEN /\ last'.ret = None
                 /\ alerts' = alerts
          ELSE IF ~last'.fault
            THEN alerts' = Append(alerts,
                   [equipment_id |-> eid, alert_type |-> atype,
                    severity |-> last'.args[3], message |-> last'.args[4],
                    resolved |-> FALSE, resolved_at |-> None])
          ELSE TRUE]_vars

\* create_alert has just been suppressed by the unresolved alert that an
\* earlier call created after the first alert of the pair was resolved
SuppressionIsNoOpWitness ==
  /\ last.op = "create_alert"
  /\ last.ret = None
  /\ ~last.fault
  /\ Len(alerts) = 2
  /\ alerts[1].equipment_id = last.args[1]
  /\ alerts[2].equipment_id = last.args[1]
  /\ alerts[1].alert_type = last.args[2]
  /\ alerts[2].alert_type = last.args[2]
  /\ alerts[1].resolved
  /\ ~alerts[2].resolved

\* C9: create_alert with equipment_id None adds a new unresolved alert
\* whenever persistence succeeds, however many unresolved alerts of the same
\* type without equipment reference exist.
SystemAlertsBypassDedup ==
  [][(last'.op = "create_alert" /\ last'.args[1] = None /\ ~last'.fault) =>
       /\ alerts' = Append(alerts,
            [equipment_id |-> None, alert_type |-> last'.args[2],
             severity |-> last'.args[3], message |-> last'.args[4],
             resolved |-> FALSE, resolved_at |-> None])
       /\ last'.ret = Some(Len(alerts) + 1)]_vars

\* create_alert has just added a second unresolved system-level alert of one
\* type
SystemAlertsBypassDedupWitness ==
  /\ last.op = "create_alert"
  /\ last.args[1] = None
  /\ last.ret = Some(2)
  /\ Cardinality(Unresolved(alerts, None, last.args[2])) = 2

\* the alerts resolve_maintenance_alerts(e) is about: unresolved, of
\* equipment e, of a maintenance type
Due(al, e) ==
  {i \in 1..Len(al) :
     /\ al[i].equipment_id = Some(e)
     /\ ~al[i].resolved
     /\ al[i].alert_type \in MaintenanceTypes}

\* C10: resolve_maintenance_alerts(E) whose commit succeeds marks resolved
\* exactly the unresolved UPCOMING/OVERDUE alerts of E and returns their
\* number; every EQUIPMENT_FAILURE alert of E and every alert of another
\* equipment or of none keeps its resolved flag and resolved_at.
ResolveMaintenanceAlertsExact ==
  [][last'.op = "resolve_maintenance_alerts" =>
       LET e == last'.args[1] IN
       /\ Len(alerts') = Len(alerts)
       /\ \A i \in 1..Len(alerts) \ Due(alerts, e) : alerts'[i] = alerts[i]
       /\ ~last'.fault =>
            /\ \A i \in Due(alerts, e) : alerts'[i] = ResolvedAt(alerts[i], now)
            /\ last'.ret = <<Cardinality(Due(alerts, e))>>]_vars

\* C10 as stated, whether or not the commit succeeds
ResolveMaintenanceAlertsAlways ==
  [][last'.op = "resolve_maintenance_alerts" =>
       LET e == last'.args[1] IN
       /\ Len(alerts') = Len(alerts)
       /\ \A i \in 1..Len(alerts) \ Due(alerts, e) : alerts'[i] = alerts[i]
       /\ \A i \in Due(alerts, e) : alerts'[i] = ResolvedAt(alerts[i], now)
       /\ last'.ret = <<Cardinality(Due(alerts, e))>>]_vars

\* resolve_maintenance_alerts has just resolved one alert of its equipment
\* and left an unresolved EQUIPMENT_FAILURE alert of the same equipment alone
ResolveMaintenanceAlertsExactWitness ==
  /\ last.op = "resolve_maintenance_alerts"
  /\ last.ret = <<1>>
  /\ \E i, j \in 1..Len(alerts) :
       /\ alerts[i].equipment_id = Some(last.args[1])
       /\ alerts[j].equipment_id = Some(last.args[1])
       /\ alerts[i].alert_type \in MaintenanceTypes
       /\ alerts[i].resolved_at = Some(now)
       /\ alerts[j].alert_type = "EQUIPMENT_FAILURE"
       /\ ~alerts[j].resolved

\* C11: if the commit of resolve_maintenance_alerts fails, it returns 0 and
\* every alert that was unresolved before the call is still unresolved with
\* resolved_at unset; it never returns a count k > 0 while fewer than k
\* alerts were persisted as resolved.
ResolveMaintenanceAlertsAllOrNothing ==
  [][last'.op = "resolve_maintenance_alerts" =>
       LET k == last'.ret[1]
           done == {i \in 1..Len(alerts) : ~alerts[i].resolved /\ alerts'[i].resolved}
       IN /\ last'.fault =>
               /\ k = 0
               /\ \A i \in 1..Len(alerts) :
                    ~alerts[i].resolved =>
                      ~alerts'[i].resolved /\ alerts'[i].resolved_at = None
          /\ k > 0 => Cardinality(done) >= k]_vars

\* the commit of resolve_maintenance_alerts has just failed with two alerts
\* of its equipment to resolve
ResolveMaintenanceAlertsAllOrNothingWitness ==
  /\ last.op = "resolve_maintenance_alerts"
  /\ last.fault
  /\ last.ret = <<0>>
  /\ Cardinality(Due(alerts, last.args[1])) = 2

\* C12: after a successful log_maintenance(E, performed_at = T), E has
\* last_maintenance_date = date(T) and next_maintenance_date = date(T) +
\* maintenance_interval, exactly one new MaintenanceLog row exists, for E with
\* performed_at = T, and no other equipment's dates change.
LogMaintenanceDates ==
  [][(last'.op = "log_maintenance" /\ last'.ret[1] # None) =>
       LET id == last'.args[1]
           T == IF last'.args[3] = None THEN now ELSE Val(last'.args[3])
       IN /\ equipment'[id].last_maintenance_date = Some(DateOf(T))
          /\ equipment'[id].next_maintenance_date =
               DateOf(T) + equipment[id].maintenance_interval
          /\ equipment'[id].maintenance_interval = equipment[id].maintenance_interval
          /\ logs \subseteq logs'
          /\ Cardinality(logs' \ logs) = 1
          /\ \A l \in logs' \ logs : l.equipment_id = id /\ l.performed_at = T
          /\ DOMAIN equipment' = DOMAIN equipment
          /\ \A j \in DOMAIN equipment \ {id} : equipment'[j] = equipment[j]]_vars

\* log_maintenance has just recorded a service of two days ago on an
\* equipment with the long interval, next to another equipment
LogMaintenanceDatesWitness ==
  /\ last.op = "log_maintenance"
  /\ last.ret[1] # None
  /\ last.args[3] # None
  /\ Cardinality(DOMAIN equipment) = 2
  /\ equipment[last.args[1]].maintenance_interval = UpcomingDays + 1
  /\ equipment[last.args[1]].last_maintenance_date = Some(Today - 2)

\* C13: immediately after log_maintenance(E, ...) returns success, E has no
\* unresolved UPCOMING_MAINTENANCE and no unresolved OVERDUE_MAINTENANCE alert,
\* while every unresolved EQUIPMENT_FAILURE alert of E is still unresolved.
LogMaintenanceClearsAlerts ==
  [][(last'.op = "log_maintenance" /\ last'.ret[1] # None) =>
       LET id == last'.args[1] IN
       /\ Due(alerts', id) = {}
       /\ \A i \in Unresolved(alerts, Some(id), "EQUIPMENT_FAILURE") :
            alerts'[i] = alerts[i]]_vars

\* the arguments log_maintenance rejects at clock reading t: an equipment id
\* that does not exist, an empty or blank performed_by, a performed_at
\* strictly later than t
LogRejected(eq, id, performed_by, performed_at, t) ==
  \/ id \notin DOMAIN eq
  \/ performed_by \in {"", " "}
  \/ performed_at # None /\ Val(performed_at) > t

\* C14: log_maintenance is rejected with an error outcome when the equipment
\* id does not exist, performed_by is empty or blank, or performed_at is
\* strictly later than the current time (equal is accepted), and otherwise
\* only when the commit of the log row fails; in each of these cases no log
\* row is added and the equipment's dates and all alerts are unchanged.
LogMaintenanceRejection ==
  [][last'.op = "log_maintenance" =>
       LET rejected == LogRejected(equipment, last'.args[1], last'.args[2],
                                   last'.args[3], now)
       IN /\ rejected => last'.ret[1] = None /\ ~last'.fault
          /\ (~rejected /\ last'.ret[1] = None) =>
               last'.fault /\ last'.ret[2] = "Database error"
          /\ last'.ret[1] = None =>
               logs' = logs /\ equipment' = equipment /\ alerts' = alerts]_vars

\* C14 as stated: an error outcome exactly in the three cases
LogMaintenanceRejectedExactly ==
  [][last'.op = "log_maintenance" =>
       LET rejected == LogRejected(equipment, last'.args[1], last'.args[2],
                                   last'.args[3], now)
       IN /\ rejected <=> last'.ret[1] = None
          /\ rejected =>
               logs' = logs /\ equipment' = equipment /\ alerts' = alerts]_vars

\* log_maintenance has just accepted a performed_at equal to the current time
LogMaintenanceRejectionWitness ==
  /\ last.op = "log_maintenance"
  /\ last.args[3] = Some(now)
  /\ last.ret[1] # None

\* the alert rows the step adds for equipment e
AddedFor(e) ==
  {i \in (Len(alerts) + 1)..Len(alerts') : alerts'[i].equipment_id = Some(e)}

\* the equipment the scan finds overdue and without an unresolved overdue alert
OverdueUnalerted ==
  {e \in DOMAIN equipment :
     /\ equipment[e].next_maintenance_date < Today
     /\ Unresolved(alerts, Some(e), "OVERDUE_MAINTENANCE") = {}}

\* the OVERDUE_MAINTENANCE alert the scan raises for equipment e
OverdueAlert(e) ==
  [equipment_id |-> Some(e), alert_type |-> "OVERDUE_MAINTENANCE",
   severity |-> "CRITICAL",
   message |-> <<"OVERDUE", Some(Today - equipment[e].next_maintenance_date)>>,
   resolved |-> FALSE, resolved_at |-> None]

\* C15: for every equipment whose next_maintenance_date is strictly before
\* the scan date and which has no unresolved OVERDUE_MAINTENANCE alert, one
\* check_maintenance_compliance creates exactly one OVERDUE_MAINTENANCE alert
\* (CRITICAL) for it, citing days overdue = scan date - next_maintenance_date,
\* and no UPCOMING_MAINTENANCE alert for it, unless the insert of that alert
\* fails to persist, in which case it creates no alert for it.
ScanOverdueBranch ==
  [][last'.op = "check_maintenance_compliance" =>
       \A e \in OverdueUnalerted :
         IF e \in last'.failed
           THEN AddedFor(e) = {}
           ELSE /\ Cardinality(AddedFor(e)) = 1
                /\ \A i \in AddedFor(e) : alerts'[i] = OverdueAlert(e)]_vars

\* C15 as stated: the overdue alert is created whatever the insert's fate
ScanOverdueBranchAlways ==
  [][last'.op = "check_maintenance_compliance" =>
       \A e \in OverdueUnalerted :
         /\ Cardinality(AddedFor(e)) = 1
         /\ \A i \in AddedFor(e) : alerts'[i] = OverdueAlert(e)]_vars

\* a scan has just raised the alert of an equipment two days overdue
ScanOverdueBranchWitness ==
  /\ last.op = "check_maintenance_compliance"
  /\ last.ret.overdue_alerts_created = 1
  /\ Len(alerts) > 0
  /\ alerts[Len(alerts)].alert_type = "OVERDUE_MAINTENANCE"
  /\ alerts[Len(alerts)].message = <<"OVERDUE", Some(2)>>
  /\ alerts[Len(alerts)].severity = "CRITICAL"

\* the equipment the scan finds inside the lookahead window, both ends
\* included, and without an unresolved upcoming alert
UpcomingUnalerted ==
  {e \in DOMAIN equipment :
     /\ Today <= equipment[e].next_maintenance_date
     /\ equipment[e].next_maintenance_date <= Today + 7
     /\ Unresolved(alerts, Some(e), "UPCOMING_MAINTENANCE") = {}}

\* the UPCOMING_MAINTENANCE alert the scan raises for equipment e
UpcomingAlert(e) ==
  [equipment_id |-> Some(e), alert_type |-> "UPCOMING_MAINTENANCE",
   severity |-> "WARNING",
   message |-> <<"UPCOMING", Some(equipment[e].next_maintenance_date - Today)>>,
   resolved |-> FALSE, resolved_at |-> None]

\* C16: for every equipment with scan date <= next_maintenance_date <= scan
\* date + 7 days, both ends included, and no unresolved UPCOMING_MAINTENANCE
\* alert, one check_maintenance_compliance creates exactly one
\* UPCOMING_MAINTENANCE alert (WARNING) for it, citing days until =
\* next_maintenance_date - scan date, and no OVERDUE_MAINTENANCE alert for it,
\* unless the insert of that alert fails to persist, in which case it creates
\* no alert for it.
ScanUpcomingBranch ==
  [][last'.op = "check_maintenance_compliance" =>
       \A e \in UpcomingUnalerted :
         IF e \in last'.failed
           THEN AddedFor(e) = {}
           ELSE /\ Cardinality(AddedFor(e)) = 1
                /\ \A i \in AddedFor(e) : alerts'[i] = UpcomingAlert(e)]_vars

\* C16 as stated: the upcoming alert is created whatever the insert's fate
ScanUpcomingBranchAlways ==
  [][last'.op = "check_maintenance_compliance" =>
       \A e \in UpcomingUnalerted :
         /\ Cardinality(AddedFor(e)) = 1
         /\ \A i \in AddedFor(e) : alerts'[i] = UpcomingAlert(e)]_vars

\* a scan has just raised two upcoming alerts, one for a next date equal to
\* the scan date and one for a next date exactly 7 days ahead
ScanUpcomingBranchWitness ==
  /\ last.op = "check_maintenance_compliance"
  /\ last.ret.upcoming_alerts_created = 2
  /\ \E i, j \in 1..Len(alerts) :
       /\ alerts[i].message = <<"UPCOMING", Some(0)>>
       /\ alerts[j].message = <<"UPCOMING", Some(7)>>

\* C17: for every equipment whose next_maintenance_date is more than 7 days
\* after the scan date, check_maintenance_compliance creates no alert and
\* changes no existing alert of that equipment.
ScanLeavesCompliantAlone ==
  [][last'.op = "check_maintenance_compliance" =>
       \A e \in DOMAIN equipment :
         equipment[e].next_maintenance_date > Today + 7 =>
           /\ AddedFor(e) = {}
           /\ \A i \in 1..Len(alerts) :
                alerts[i].equipment_id = Some(e) => alerts'[i] = alerts[i]]_vars

\* a scan has just raised an alert for one equipment and none for the other,
\* never serviced, more than 7 days from its next date and with an unresolved
\* alert from before its interval was lengthened
ScanLeavesCompliantAloneWitness ==
  /\ last.op = "check_maintenance_compliance"
  /\ last.ret.upcoming_alerts_created + last.ret.overdue_alerts_created = 1
  /\ \E e \in DOMAIN equipment :
       /\ equipment[e].next_maintenance_date > Today + 7
       /\ equipment[e].last_maintenance_date = None
       /\ Len(alerts) = 2
       /\ alerts[1].equipment_id = Some(e)
       /\ ~alerts[1].resolved
       /\ alerts[2].equipment_id # Some(e)

\* the rows the step adds to the alert table with type atype
AddedOfType(atype) ==
  {i \in (Len(alerts) + 1)..Len(alerts') : alerts'[i].alert_type = atype}

\* C18: the summary of check_maintenance_compliance is exact: total_equipment
\* is the number of equipment records, each examined once,
\* upcoming_alerts_created is the number of UPCOMING_MAINTENANCE rows added by
\* this call and overdue_alerts_created the number of OVERDUE_MAINTENANCE rows
\* added by it; suppressed and failed creations are not counted.
ScanSummaryExact ==
  [][last'.op = "check_maintenance_compliance" =>
       /\ SubSeq(alerts', 1, Len(alerts)) = alerts
       /\ last'.ret.total_equipment = Cardinality(DOMAIN equipment)
       /\ last'.ret.upcoming_alerts_created =
            Cardinality(AddedOfType("UPCOMING_MAINTENANCE"))
       /\ last'.ret.overdue_alerts_created =
            Cardinality(AddedOfType("OVERDUE_MAINTENANCE"))
       /\ last'.ret.upcoming_alerts_created =
            Cardinality(UpcomingUnalerted \ last'.failed)
       /\ last'.ret.overdue_alerts_created =
            Cardinality(OverdueUnalerted \ last'.failed)
       /\ AddedOfType("EQUIPMENT_FAILURE") = {}]_vars

\* a scan over two equipment has just counted the one alert it created, the
\* other equipment having an unresolved alert as well
ScanSummaryExactWitness ==
  /\ last.op = "check_maintenance_compliance"
  /\ last.ret.total_equipment = 2
  /\ last.ret.upcoming_alerts_created + last.ret.overdue_alerts_created = 1
  /\ last.failed = {}
  /\ \A e \in DOMAIN equipment :
       \E i \in 1..Len(alerts) :
         alerts[i].equipment_id = Some(e) /\ ~alerts[i].resolved

\* C19: in every state reachable by create_equipment, update_equipment,
\* update_equipment_status and log_maintenance calls made on any dates, every
\* equipment has next_maintenance_date = last_maintenance_date +
\* maintenance_interval when last_maintenance_date is set, and
\* next_maintenance_date = creation date + maintenance_interval when it is not.
ScheduleInvariant ==
  \A e \in DOMAIN equipment :
    equipment[e].next_maintenance_date =
      (IF equipment[e].last_maintenance_date # None
         THEN Val(equipment[e].last_maintenance_date)
         ELSE equipment[e].created_date) + equipment[e].maintenance_interval

\* C20: every equipment record has a positive maintenance interval in every
\* reachable state: create_equipment and update_equipment both reject a zero
\* or negative maintenance_interval with a validation error and leave the
\* stored interval and next_maintenance_date unchanged.  (For update_equipment
\* any error outcome is taken for the rejection.)
IntervalAlwaysPositive ==
  [][/\ (last'.op = "create_equipment" /\ last'.args[2] <= 0) =>
          last'.ret[1] = None /\ ~last'.fault /\ equipment' = equipment
     /\ (/\ last'.op = "update_equipment"
         /\ last'.args[2]
         /\ last'.args[3] # None
         /\ Val(last'.args[3]) <= 0) =>
          last'.ret[1] = None /\ equipment' = equipment
     /\ \A e \in DOMAIN equipment' : equipment'[e].maintenance_interval > 0]_vars

StatusUpdateChangesOnlyStatus ==
  [][last'.op = "update_equipment_status" =>
       LET id == last'.args[1]
           new_status == last'.args[2] IN
       /\ alerts' = alerts
       /\ logs' = logs
       /\ DOMAIN equipment' = DOMAIN equipment
       /\ \A e \in DOMAIN equipment :
            IF e = id
              THEN /\ equipment'[e]
                        = [equipment[e] EXCEPT
                             !.current_status = equipment'[e].current_status]
                   /\ equipment'[e].current_status
                        \in {equipment[e].current_status, new_status}
                   /\ last'.ret[2] = "None"
                        => equipment'[e].current_status = new_status
              ELSE equipment'[e] = equipment[e]
       /\ id \notin DOMAIN equipment =>
            /\ last'.ret = <<None, "Equipment not found">>
            /\ equipment' = equipment]_vars

\* update_equipment_status has just set equipment 1 to FAIL while it has an
\* unresolved overdue alert and a recorded service, and a second equipment
\* is stored; no failure alert exists
StatusUpdateChangesOnlyStatusWitness ==
  /\ last.op = "update_equipment_status"
  /\ last.args = <<1, "FAIL">>
  /\ last.ret = <<Some(1), "None">>
  /\ DOMAIN equipment = {1, 2}
  /\ equipment[1].current_status = "FAIL"
  /\ equipment[2].current_status = "OK"
  /\ equipment[1].last_maintenance_date # None
  /\ Unresolved(alerts, Some(1), "OVERDUE_MAINTENANCE") # {}
  /\ Unresolved(alerts, Some(1), "EQUIPMENT_FAILURE") = {}

\* the table al with a new unresolved alert of the given type and severity
\* for equipment e appended, whatever its message
Appended(al, al2, e, atype, sev) ==
  /\ Len(al2) = Len(al) + 1
  /\ SubSeq(al2, 1, Len(al)) = al
  /\ al2[Len(al2)].equipment_id = Some(e)
  /\ al2[Len(al2)].alert_type = atype
  /\ al2[Len(al2)].severity = sev
  /\ ~al2[Len(al2)].resolved
  /\ al2[Len(al2)].resolved_at = None

\* C24: create_equipment_failure_alert(E) returns None and creates no alert
\* when E does not exist or when an unresolved EQUIPMENT_FAILURE alert for E
\* exists; otherwise, whatever maintenance alerts E has, it creates an
\* unresolved EQUIPMENT_FAILURE alert of severity CRITICAL for E and returns
\* it, unless the commit fails, in which case it returns None and creates
\* nothing.
FailureAlertOutcomes ==
  [][last'.op = "create_equipment_failure_alert" =>
       LET e == last'.args[1] IN
       IF e \notin DOMAIN equipment
            \/ Unresolved(alerts, Some(e), "EQUIPMENT_FAILURE") # {}
         THEN last'.ret = None /\ alerts' = alerts /\ ~last'.fault
         ELSE \/ /\ Appended(alerts, alerts', e, "EQUIPMENT_FAILURE", "CRITICAL")
                 /\ last'.ret = Some(Len(alerts'))
                 /\ ~last'.fault
              \/ last'.fault /\ last'.ret = None /\ alerts' = alerts]_vars

\* C24 as stated: for an existing E without unresolved EQUIPMENT_FAILURE
\* alert the alert is always created
FailureAlertAlwaysCreated ==
  [][last'.op = "create_equipment_failure_alert" =>
       LET e == last'.args[1] IN
       IF e \notin DOMAIN equipment
            \/ Unresolved(alerts, Some(e), "EQUIPMENT_FAILURE") # {}
         THEN last'.ret = None /\ alerts' = alerts
         ELSE /\ Appended(alerts, alerts', e, "EQUIPMENT_FAILURE", "CRITICAL")
              /\ last'.ret = Some(Len(alerts'))]_vars

\* a failure alert has just been created for an equipment that has an
\* unresolved maintenance alert
FailureAlertOutcomesWitness ==
  /\ last.op = "create_equipment_failure_alert"
  /\ last.ret # None
  /\ \E t \in MaintenanceTypes :
       Unresolved(alerts, Some(last.args[1]), t) # {}
  /\ Unresolved(alerts, Some(last.args[1]), "EQUIPMENT_FAILURE")
       = {Val(last.ret)}

\* the severity create_maintenance_alert is to give an alert of the type
MaintenanceSeverity(atype) ==
  IF atype = "OVERDUE_MAINTENANCE" THEN "CRITICAL" ELSE "WARNING"

\* C25: create_maintenance_alert returns True if and only if it added a new
\* alert row; it returns False and adds nothing when the equipment is
\* missing, when the type is neither OVERDUE_MAINTENANCE nor
\* UPCOMING_MAINTENANCE, or when dedup suppresses it; a created
\* OVERDUE_MAINTENANCE alert has severity CRITICAL and a created
\* UPCOMING_MAINTENANCE alert has severity WARNING.
MaintenanceAlertReturn ==
  [][last'.op = "create_maintenance_alert" =>
       LET e == last'.args[1]
           atype == last'.args[2] IN
       /\ last'.ret[1] \in BOOLEAN
       /\ last'.ret[1] <=> Len(alerts') = Len(alerts) + 1
       /\ ~last'.ret[1] => alerts' = alerts
       /\ (\/ e \notin DOMAIN equipment
           \/ atype \notin MaintenanceTypes
           \/ Unresolved(alerts, Some(e), atype) # {})
            => last'.ret[1] = FALSE
       /\ last'.ret[1] =>
            /\ atype \in MaintenanceTypes
            /\ Appended(alerts, alerts', e, atype, MaintenanceSeverity(atype))]_vars

\* create_maintenance_alert has just returned True for an OVERDUE_MAINTENANCE
\* alert of an equipment that already had an unresolved UPCOMING_MAINTENANCE
\* alert
MaintenanceAlertReturnWitness ==
  /\ last.op = "create_maintenance_alert"
  /\ last.ret = <<TRUE>>
  /\ last.args[2] = "OVERDUE_MAINTENANCE"
  /\ alerts[Len(alerts)].severity = "CRITICAL"
  /\ Unresolved(alerts, Some(last.args[1]), "UPCOMING_MAINTENANCE") # {}

\* what create_alert returns to a caller whose alert dedup suppresses: the
\* table already holds an unresolved alert of the equipment and type
SuppressedOutcome ==
  create_alert(<<NewAlert(Some(1), "EQUIPMENT_FAILURE", "INFO", DirectMessage)>>,
               Some(1), "EQUIPMENT_FAILURE", "INFO", DirectMessage, TRUE).ret

\* C26: the outcome create_alert returns when its insert fails with a
\* persistence error is different from the outcome it returns when it is
\* suppressed by dedup, and in the failure case no alert row is persisted.
SuppressionDistinctFromFailure ==
  [][(last'.op = "create_alert" /\ last'.fault) =>
       /\ last'.ret # SuppressedOutcome
       /\ alerts' = alerts]_vars

\* the rank the list is to order severities by: CRITICAL first, INFO last
SeverityRank(sev) ==
  IF sev = "CRITICAL" THEN 3 ELSE IF sev = "WARNING" THEN 2 ELSE 1

\* row a is not to come after row b: higher severity, or the same and not older
NotAfter(a, b) ==
  \/ SeverityRank(a.severity) > SeverityRank(b.severity)
  \/ /\ a.severity = b.severity
     /\ a.created_at >= b.created_at

\* C27: get_unresolved_alerts returns only unresolved alerts, ordered
\* CRITICAL before WARNING before INFO and, within one severity, by
\* created_at newest first; with a limit n it returns the first n alerts of
\* that ordering, without one all of them.
UnresolvedListOrdered ==
  last.op = "get_unresolved_alerts" =>
    LET listed == last.ret
        open == {i \in 1..Len(alerts) : ~alerts[i].resolved}
        shown == {listed[k] : k \in DOMAIN listed}
        limit == last.args[1] IN
    /\ shown \subseteq open
    /\ Cardinality(shown) = Len(listed)
    /\ \A j, k \in DOMAIN listed :
         j < k => NotAfter(alerts[listed[j]], alerts[listed[k]])
    /\ \A i \in open \ shown : \A k \in DOMAIN listed :
         NotAfter(alerts[listed[k]], alerts[i])
    /\ Len(listed) = IF limit # None /\ Val(limit) < Cardinality(open)
                       THEN Val(limit) ELSE Cardinality(open)

\* C28: in every reachable state an alert's resolved_at is set if and only
\* if its resolved flag is true; an alert that has just been created has
\* resolved = false and resolved_at unset.
ResolvedAtIffResolved ==
  /\ \A i \in 1..Len(alerts) :
       alerts[i].resolved <=> alerts[i].resolved_at # None
  /\ (last.op \in {"create_alert", "create_equipment_failure_alert"}
        /\ last.ret # None) =>
       /\ alerts[Val(last.ret)].resolved = FALSE
       /\ alerts[Val(last.ret)].resolved_at = None
  /\ (last.op = "create_maintenance_alert" /\ last.ret = <<TRUE>>) =>
       /\ alerts[Len(alerts)].resolved = FALSE
       /\ alerts[Len(alerts)].resolved_at = None

\* resolve_alert has just resolved one alert, stamping it with the current
\* clock reading, while another alert is unresolved
ResolvedAtIffResolvedWitness ==
  /\ last.op = "resolve_alert"
  /\ last.ret[1] = TRUE
  /\ alerts[last.args[1]].resolved
  /\ alerts[last.args[1]].resolved_at = Some(now)
  /\ \E i \in 1..Len(alerts) : ~alerts[i].resolved /\ alerts[i].resolved_at = None

\* C29: no two equipment records share a serial number; create_equipment
\* with a serial number already in use returns an error and adds no record;
\* a successful create yields status OK and next_maintenance_date = creation
\* date + interval; update_equipment never changes a serial number.
SerialNumbersIdentify ==
  [][/\ \A i, j \in DOMAIN equipment' :
          i # j => equipment'[i].serial_number # equipment'[j].serial_number
     /\ last'.op = "create_equipment" =>
          /\ (\E i \in DOMAIN equipment :
                equipment[i].serial_number = last'.args[1])
               => /\ last'.ret[1] = None
                  /\ last'.ret[2] # "None"
                  /\ equipment' = equipment
          /\ last'.ret[1] # None =>
               LET id == Val(last'.ret[1]) IN
               /\ id \notin DOMAIN equipment
               /\ DOMAIN equipment' = DOMAIN equipment \cup {id}
               /\ \A i \in DOMAIN equipment : equipment'[i] = equipment[i]
               /\ equipment'[id].serial_number = last'.args[1]
               /\ equipment'[id].current_status = "OK"
               /\ equipment'[id].created_date = Today
               /\ equipment'[id].next_maintenance_date
                    = Today + equipment'[id].maintenance_interval
     /\ last'.op = "update_equipment" =>
          /\ DOMAIN equipment' = DOMAIN equipment
          /\ \A i \in DOMAIN equipment :
               equipment'[i].serial_number = equipment[i].serial_number]_vars

\* create_equipment has just been refused the serial number of a stored
\* equipment, with a valid interval, while two equipment are stored
SerialNumbersIdentifyWitness ==
  /\ last.op = "create_equipment"
  /\ last.args = <<"S1", 1>>
  /\ last.ret = <<None, "already exists">>
  /\ \E i \in DOMAIN equipment : equipment[i].serial_number = "S1"
  /\ DOMAIN equipment = {1, 2}

\* C30: when callers run resolve_alert on the same unresolved alert with
\* their reads and writes interleaved, only one of them returns success,
\* the one whose write resolves the alert, and resolved_at, once written, is
\* not overwritten by another caller.
ExactlyOnceResolution ==
  [][/\ \A w \in Callers :
          (pc[w] = "write" /\ pc'[w] = "resolved")
            => ~alerts[call[w].alert_id].resolved
     /\ \A i \in 1..Len(alerts) :
          alerts[i].resolved_at # None
            => alerts'[i].resolved_at = alerts[i].resolved_at]_vars

\* C37: in every reachable state each alert's equipment reference is either
\* null or the id of a stored equipment, and create_alert called with an
\* equipment id that matches no equipment adds no alert row.
AlertReferencesEquipment ==
  [][/\ \A i \in 1..Len(alerts') :
          \/ alerts'[i].equipment_id = None
          \/ Val(alerts'[i].equipment_id) \in DOMAIN equipment'
     /\ (/\ last'.op = "create_alert"
         /\ last'.args[1] # None
         /\ Val(last'.args[1]) \notin DOMAIN equipment)
          => alerts' = alerts]_vars

\* C36: update_equipment called without a new interval value
\* (maintenance_interval omitted, or passed as None) leaves the equipment's
\* maintenance_interval, last_maintenance_date and next_maintenance_date
\* unchanged, on whatever date it is called and whether or not the
\* equipment has ever been maintained.
UpdateWithoutIntervalKeepsSchedule ==
  [][(/\ last'.op = "update_equipment"
      /\ last'.args[1] \in DOMAIN equipment
      /\ (~last'.args[2] \/ last'.args[3] = None)) =>
       LET id == last'.args[1] IN
       /\ id \in DOMAIN equipment'
       /\ equipment'[id].maintenance_interval = equipment[id].maintenance_interval
       /\ equipment'[id].last_maintenance_date = equipment[id].last_maintenance_date
       /\ equipment'[id].next_maintenance_date = equipment[id].next_maintenance_date]_vars

\* C32: immediately after a check_maintenance_compliance call in which no
\* persistence failure occurred, every equipment with next_maintenance_date
\* before the scan date has exactly one unresolved OVERDUE_MAINTENANCE alert,
\* and every equipment with next_maintenance_date within the inclusive 7-day
\* window has exactly one unresolved UPCOMING_MAINTENANCE alert.
ScanComplete ==
  (last.op = "check_maintenance_compliance" /\ ~last.fault) =>
    \A e \in DOMAIN equipment :
      /\ equipment[e].next_maintenance_date < Today =>
           Cardinality(Unresolved(alerts, Some(e), "OVERDUE_MAINTENANCE")) = 1
      /\ (/\ Today <= equipment[e].next_maintenance_date
          /\ equipment[e].next_maintenance_date <= Today + 7) =>
           Cardinality(Unresolved(alerts, Some(e), "UPCOMING_MAINTENANCE")) = 1

\* a scan without failure has just finished over one overdue equipment and
\* one inside the window; it created the alert of one of them, the alert of
\* the other existed before
ScanCompleteWitness ==
  /\ last.op = "check_maintenance_compliance"
  /\ ~last.fault
  /\ DOMAIN equipment = {1, 2}
  /\ \E e \in DOMAIN equipment : equipment[e].next_maintenance_date < Today
  /\ \E e \in DOMAIN equipment : equipment[e].next_maintenance_date >= Today
  /\ last.ret.overdue_alerts_created + last.ret.upcoming_alerts_created = 1

\* C33: an equipment never has an unresolved UPCOMING_MAINTENANCE alert and
\* an unresolved OVERDUE_MAINTENANCE alert at the same time.
NeverUpcomingAndOverdue ==
  \A e \in DOMAIN equipment :
    \/ Unresolved(alerts, Some(e), "UPCOMING_MAINTENANCE") = {}
    \/ Unresolved(alerts, Some(e), "OVERDUE_MAINTENANCE") = {}

\* C34: in every reachable state, if equipment E has an unresolved
\* OVERDUE_MAINTENANCE alert then E's next_maintenance_date is before the
\* current date; in particular an update_equipment call that moves
\* next_maintenance_date to today or later leaves no such alert.
OverdueAlertsTrackSchedule ==
  \A e \in DOMAIN equipment :
    Unresolved(alerts, Some(e), "OVERDUE_MAINTENANCE") # {}
      => equipment[e].next_maintenance_date < Today

\* the maintenance logs of equipment e
LogsOf(e) == {l \in logs : l.equipment_id = e}

\* C35: for every equipment with at least one maintenance log,
\* last_maintenance_date equals the date of the latest performed_at among
\* its MaintenanceLog rows.
LastMaintenanceIsLatestLog ==
  \A e \in DOMAIN equipment :
    LogsOf(e) # {} =>
      equipment[e].last_maintenance_date
        = Some(DateOf(Max({l.performed_at : l \in LogsOf(e)})))

\* the alert a scan of today raises for the equipment row e, None if none
ScanAlertFor(e) ==
  LET q == scan_request(e, Today) IN
  IF q = None THEN None
  ELSE Some([alert_type |-> Val(q).alert_type,
             message |-> Val(maintenance_alert_fields(Val(q).alert_type,
                           Val(q).days_overdue, Val(q).days_until)).message])

\* C31: when a scan and a log_maintenance for equipment E have both
\* completed without persistence failure, every unresolved
\* OVERDUE_MAINTENANCE or UPCOMING_MAINTENANCE alert of E is the one a scan
\* raises from the next_maintenance_date E has after the maintenance, none
\* being derived from the date E had before: the outcome is that of the two
\* operations in some serial order.
ScanLogSerial ==
  \A s, m \in Callers :
    (/\ pc[s] = "scanned" /\ ~call[s].fault
     /\ pc[m] = "logged" /\ ~call[m].fault) =>
      LET e == Val(call[m].equipment_id) IN
      \A i \in Due(alerts, e) :
        /\ ScanAlertFor(equipment[e]) # None
        /\ alerts[i].alert_type = Val(ScanAlertFor(equipment[e])).alert_type
        /\ alerts[i].message = Val(ScanAlertFor(equipment[e])).message
====
